---- MODULE Spec2Model ----
(***************************************************************************)
(* Model of the website's server-rendered layout and landing page:         *)
(*   - the responsive breakpoint store built by media_query() and the      *)
(*     module variable `store` that Layout assigns and Header reads;       *)
(*   - the tab selection of the Demos component.                           *)
(* The viewport facility (window.matchMedia and its change events) is the  *)
(* environment of the store.                                               *)
(***************************************************************************)
EXTENDS Integers, Sequences, FiniteSets, TLC

\* ------------------------------------------------------------------ bounds
MaxOps == 4         \* Layout renders + subscriptions + viewport changes in one run
MaxOver == 2        \* how far outside [0, length) a requested tab index may lie
MaxPages == 2       \* Page renders (one star-count fetch each)

\* ------------------------------------------------------- breakpoint tables
Keys == {"sm", "md", "lg", "xl", "2xl"}

\* sizes[key] is the pixel bound of the "(min-width: Npx)" query of key
sizes ==
  ("sm" :> 640) @@ ("md" :> 768) @@ ("lg" :> 1024) @@ ("xl" :> 1280) @@ ("2xl" :> 1536)

_default_all_true == [k \in Keys |-> TRUE]

_default == [k \in Keys |-> FALSE]

\* Viewport widths: below every bound, on the middle bound, on the largest bound.
Widths == {0, sizes["lg"], sizes["2xl"]}

\* window.matchMedia(sizes[key]).matches for a viewport of width w
Matches(key, w) == w >= sizes[key]

Stores == 1..MaxOps
SubIds == 1..MaxOps

VARIABLES
  hasWindow,      \* typeof window !== "undefined"
  default_obj,    \* the contents of the module's `_default` object
  width,          \* current viewport width
  resizes,        \* number of viewport changes so far
  nsubs,          \* number of subscriptions taken so far (ids 1..nsubs are used)
  nstores,        \* number of media_query() calls so far (stores 1..nstores exist)
  store,          \* the module variable `store` (0: undefined)
  value,          \* value[s]: the writable's current value of store s
  listeners,      \* listeners[s]: the keys of the `listeners` object of store s
  attached,       \* attached[s]: keys whose listener is registered on its mql
  pending,        \* pending[s]: keys whose mql has a change event not yet dispatched
  dispatching,    \* the viewport facility is dispatching its batch of change events
  on_destroy,     \* on_destroy[s]: the destroy callback of store s is registered
  teardowns,      \* teardowns[s]: that callback has run 0 times, once, or 2 = more than once
  evaluated,      \* evaluated[s]: some change listener of store s has run
  subscribers,    \* subscribers[s]: the writable's subscriber set
  handle,         \* handle[c]: "none", "held" or "released" unsubscribe handle
  subStore,       \* subStore[c]: the store subscription c was taken on (0: none)
  notify,         \* the callback invocations made by the last step (op "dropped": a
                  \* change event found its listener removed)
  error,          \* an exception was thrown
  header_log,     \* what Header logged for $store.lg ("none" before any render)
  header_store,   \* the store the last Header render subscribed to (0: undefined)
  page_subscribers,   \* number of subscriptions on the page store
  current_selection,  \* Demos: index of the visible tab
  select_index,       \* Demos: the last index a selection asked for
  select_outcome,     \* Demos: "none", "ok" or "OutOfRange"
  demos_html,         \* Demos: the markup last rendered
  page_pc,        \* page_pc[r]: how far Page render r has run
  fetch_state,    \* fetch_state[r]: the promise chain of render r's fetch
  fetch_data,     \* fetch_data[r]: stargazers_count of the response body
  star_count,     \* star_count[r]: the variable star_count of render r
  page_html,      \* page_html[r]: the star count in the markup render r returned
  page_error      \* a Page callback threw

storeVars ==
  <<hasWindow, default_obj, width, resizes, nsubs, nstores, store, value, listeners, attached, pending,
    dispatching, on_destroy, teardowns, evaluated, subscribers, handle, subStore, notify, error,
    header_log, header_store, page_subscribers>>

demosVars == <<current_selection, select_index, select_outcome, demos_html>>

pageVars == <<page_pc, fetch_state, fetch_data, star_count, page_html, page_error>>

vars == <<storeVars, demosVars, pageVars>>

\* ------------------------------------------------------------------- Demos
\* The `tabs` array of Demos (titles only; code and demo are opaque payloads).
tabs ==
  << "Sketch Recognition", "Question Answering", "Image Segmentation",
     "Time Series Forecasting", "XGBoost with Explainability" >>

\* each(tabs, (entry, i) => ...) runs i over 0 .. tabs.length - 1
TabIndices == 0 .. (Len(tabs) - 1)

SelectInputs == (0 - MaxOver) .. (Len(tabs) - 1 + MaxOver)

\* nav entry i is emitted with the class "active-example-tab"
TabMarkedActive(i, sel) == TRUE

\* content panel i is emitted with the class "hidden"
PanelHidden_first_only(i, sel) == i # 0

PanelHidden(i, sel) == i # sel

\* the markup Demos returns for a selection
DemosRender(sel) ==
  [ active_tabs |-> {i \in TabIndices : TabMarkedActive(i, sel)},
    hidden      |-> {i \in TabIndices : PanelHidden(i, sel)} ]

InRange(index) == index >= 0 /\ index < Len(tabs)

Select_unchecked(index) ==
  /\ select_index' = index
  /\ current_selection' = index
  /\ select_outcome' = "ok"
  /\ UNCHANGED <<demos_html, storeVars, pageVars>>

\* Select(index) of the tab selection model
Select(index) ==
  /\ select_index' = index
  /\ IF InRange(index)
       THEN current_selection' = index /\ select_outcome' = "ok"
       ELSE UNCHANGED current_selection /\ select_outcome' = "OutOfRange"
  /\ UNCHANGED <<demos_html, storeVars, pageVars>>

\* the rendering layer re-renders Demos from the current selection
Demos ==
  /\ demos_html' = DemosRender(current_selection)
  /\ UNCHANGED <<current_selection, select_index, select_outcome, storeVars, pageVars>>

ActiveIndex == current_selection

IsActive(j) == ~PanelHidden(j, current_selection)

DemosInit ==
  /\ current_selection = 0
  /\ select_index = 0
  /\ select_outcome = "none"
  /\ demos_html = DemosRender(0)

DemosNext ==
  \/ \E index \in SelectInputs : Select(index)
  \/ Demos

\* -------------------------------------------------------------------- Page
Renders == 1..MaxPages

\* stargazers_count of a response body ("undefined": the body has no such field)
StarData == {"0", "41", "undefined"}

\* a render is on the call stack between its start and its return
Rendering == \E r \in Renders : page_pc[r] \in {"fetch", "init"}

CallbackMayRun_any == TRUE

\* the .then callbacks are promise reactions: they run only when no render is
\* on the call stack
CallbackMayRun == ~Rendering

\* Page, first statement: fetch(...).then(...).then(...) starts the request
\* and registers the callbacks; star_count is declared further down and has
\* no value yet
Page_fetch(r) ==
  /\ ~Rendering
  /\ page_pc[r] = "none"
  /\ \A q \in Renders : q < r => page_pc[q] = "returned"
  /\ page_pc' = [page_pc EXCEPT ![r] = "fetch"]
  /\ fetch_state' = [fetch_state EXCEPT ![r] = "pending"]
  /\ UNCHANGED <<fetch_data, star_count, page_html, page_error, storeVars, demosVars>>

\* Page: let star_count = 0
Page_init(r) ==
  /\ page_pc[r] = "fetch"
  /\ page_pc' = [page_pc EXCEPT ![r] = "init"]
  /\ star_count' = [star_count EXCEPT ![r] = "0"]
  /\ UNCHANGED <<fetch_state, fetch_data, page_html, page_error, storeVars, demosVars>>

\* Page: return the markup, which holds escape(star_count)
Page_return(r) ==
  /\ page_pc[r] = "init"
  /\ page_pc' = [page_pc EXCEPT ![r] = "returned"]
  /\ page_html' = [page_html EXCEPT ![r] = star_count[r]]
  /\ UNCHANGED <<fetch_state, fetch_data, star_count, page_error, storeVars, demosVars>>

\* the response arrives: the fetch promise resolves
FetchResolve(r, d) ==
  /\ fetch_state[r] = "pending"
  /\ fetch_state' = [fetch_state EXCEPT ![r] = "response"]
  /\ fetch_data' = [fetch_data EXCEPT ![r] = d]
  /\ UNCHANGED <<page_pc, star_count, page_html, page_error, storeVars, demosVars>>

\* the request fails: the fetch promise rejects and no callback runs
FetchReject(r) ==
  /\ fetch_state[r] = "pending"
  /\ fetch_state' = [fetch_state EXCEPT ![r] = "rejected"]
  /\ UNCHANGED <<page_pc, fetch_data, star_count, page_html, page_error, storeVars,
                 demosVars>>

\* (r) => r.json(): the body parses (ok) or r.json() rejects
ThenJson(r, ok) ==
  /\ CallbackMayRun
  /\ fetch_state[r] = "response"
  /\ fetch_state' = [fetch_state EXCEPT ![r] = IF ok THEN "json" ELSE "rejected"]
  /\ UNCHANGED <<page_pc, fetch_data, star_count, page_html, page_error, storeVars,
                 demosVars>>

\* (data) => { star_count = data.stargazers_count }: an assignment to
\* star_count before its declaration has run throws a ReferenceError
ThenAssign(r) ==
  /\ CallbackMayRun
  /\ fetch_state[r] = "json"
  /\ fetch_state' = [fetch_state EXCEPT ![r] = "assigned"]
  /\ IF star_count[r] = "uninitialised"
       THEN page_error' = TRUE /\ UNCHANGED star_count
       ELSE star_count' = [star_count EXCEPT ![r] = fetch_data[r]] /\ UNCHANGED page_error
  /\ UNCHANGED <<page_pc, fetch_data, page_html, storeVars, demosVars>>

PageInitial ==
  /\ page_pc = [r \in Renders |-> "none"]
  /\ fetch_state = [r \in Renders |-> "none"]
  /\ fetch_data = [r \in Renders |-> "undefined"]
  /\ star_count = [r \in Renders |-> "uninitialised"]
  /\ page_html = [r \in Renders |-> "none"]
  /\ page_error = FALSE

PageNext ==
  \/ \E r \in Renders : Page_fetch(r)
  \/ \E r \in Renders : Page_init(r)
  \/ \E r \in Renders : Page_return(r)
  \/ \E r \in Renders, d \in StarData : FetchResolve(r, d)
  \/ \E r \in Renders : FetchReject(r)
  \/ \E r \in Renders, ok \in BOOLEAN : ThenJson(r, ok)
  \/ \E r \in Renders : ThenAssign(r)

\* ------------------------------------------------------ breakpoint store
NoNotify == [op |-> "none", store |-> 0, key |-> "", subs |-> {}, value |-> _default]

OpsLeft == nstores + nsubs + resizes < MaxOps

\* stores 1..nstores have been constructed
Constructed(s) == s <= nstores

\* typeof window !== "undefined" guards the registration loop over `sizes`:
\* the keys that get an mql, a listener and a `listeners` entry
RegisteredKeys_unguarded(hw) == Keys

RegisteredKeys_but_first(hw) == IF hw THEN Keys \ {"sm"} ELSE {}

RegisteredKeys(hw) == IF hw THEN Keys ELSE {}

ListenersEntries_none(keys) == {}

\* listeners[key] = [mql, listener] for every key the loop registers
ListenersEntries(keys) == keys

\* onChange(key): update((s) => ({ ...s, [key]: !!listeners[key][0].matches }))
onChange_literal_key(s, key, w) ==
  [k \in DOMAIN s \cup {"key"} |-> IF k = "key" THEN Matches(key, w) ELSE s[k]]

onChange_negated(s, key, w) == [s EXCEPT ![key] = ~Matches(key, w)]

onChange(s, key, w) == [s EXCEPT ![key] = Matches(key, w)]

SharedDefaultAfter_in_place(d, aliased, key, w) ==
  IF aliased THEN [d EXCEPT ![key] = Matches(key, w)] ELSE d

\* what an update leaves in the `_default` object, which a store's value still
\* is (aliased) until its first update: ({ ...s, [key]: ... }) builds a new
\* object, so `_default` is not written
SharedDefaultAfter(d, aliased, key, w) == d

\* the destroy callback: removeEventListener for every key of `listeners`
RemoveListeners_none(att, lst) == att

RemoveListeners_but_last(att, lst) == att \ (lst \ {"2xl"})

RemoveListeners(att, lst) == att \ lst

RemoveSubscriber_keeps(set, c) == set

\* the writable's unsubscribe: the callback leaves the subscriber set
RemoveSubscriber(set, c) == set \ {c}

\* the subscribers a set() of the writable invokes
Notified(s) == subscribers[s]

HeaderStore_before(before, after) == before

\* the store Header subscribes to: it reads the module variable `store` when
\* Layout renders it, after Layout has assigned store = media_query()
HeaderStore(before, after) == after

HeaderRender_no_unsubscribe(set) == set \cup {0}

\* Header subscribes its callback (subscriber 0) and unsubscribes it again
\* before it returns its markup
HeaderRender(set) == RemoveSubscriber(set \cup {0}, 0)

\* Layout subscribes to the page store and unsubscribes before it returns
PageSubscribersAfter(n) == (n + 1) - 1

\* One Layout render, which is synchronous: subscribe to page,
\* store = media_query(), unsubscribe from page, then the Header render, which
\* subscribes to `store`, logs $store.lg and unsubscribes again
Layout ==
  /\ ~dispatching
  /\ OpsLeft
  /\ LET s == nstores + 1
         keys == RegisteredKeys(hasWindow)
         hs == HeaderStore(store, s)
     IN /\ nstores' = s
        /\ store' = s
        /\ value' = [value EXCEPT ![s] = default_obj]
        /\ listeners' = [listeners EXCEPT ![s] = ListenersEntries(keys)]
        /\ attached' = [attached EXCEPT ![s] = keys]
        /\ on_destroy' = [on_destroy EXCEPT ![s] = hasWindow]
        /\ header_store' = hs
        /\ IF hs = 0   \* subscribe(undefined, ...) does nothing; $store stays undefined
             THEN header_log' = "undefined" /\ UNCHANGED subscribers
             ELSE /\ header_log' = value'[hs]["lg"]
                  /\ subscribers' = [subscribers EXCEPT ![hs] = HeaderRender(@)]
  /\ page_subscribers' = PageSubscribersAfter(page_subscribers)
  /\ notify' = NoNotify
  /\ UNCHANGED <<hasWindow, default_obj, dispatching, width, resizes, nsubs, pending,
                 teardowns, evaluated, handle, subStore, error, demosVars, pageVars>>

\* subscribe(store, callback) by a reader of the exported module variable
\* `store`: the writable adds the callback and calls it at once with the
\* current value.  Each subscription is a fresh one (c is the next unused id).
Subscribe(c) ==
  /\ ~dispatching
  /\ store # 0
  /\ OpsLeft
  /\ c = nsubs + 1
  /\ nsubs' = c
  /\ subscribers' = [subscribers EXCEPT ![store] = @ \cup {c}]
  /\ handle' = [handle EXCEPT ![c] = "held"]
  /\ subStore' = [subStore EXCEPT ![c] = store]
  /\ notify' = [op |-> "subscribe", store |-> store, key |-> "", subs |-> {c},
                value |-> value[store]]
  /\ UNCHANGED <<hasWindow, default_obj, header_store, page_subscribers, dispatching, width, resizes, nstores, store, value, listeners, attached,
                 pending, on_destroy, teardowns, evaluated, error, header_log, demosVars, pageVars>>

\* invoking the unsubscribe handle (a second invocation finds nothing to remove)
Unsubscribe(c) ==
  /\ ~dispatching
  /\ handle[c] # "none"
  /\ handle' = [handle EXCEPT ![c] = "released"]
  /\ subscribers' = [subscribers EXCEPT ![subStore[c]] = RemoveSubscriber(@, c)]
  /\ notify' = NoNotify
  /\ UNCHANGED <<hasWindow, default_obj, header_store, page_subscribers, dispatching, width, resizes, nsubs, nstores, store, value, listeners, attached,
                 pending, on_destroy, teardowns, evaluated, subStore, error, header_log,
                 demosVars, pageVars>>

\* the mql whose change event the viewport facility dispatches next: events
\* go out in the order the mqls were created (store by store, key by key in
\* the order of `sizes`)
NextEvent ==
  LET s == CHOOSE x \in Stores : pending[x] # {} /\ \A y \in Stores : pending[y] # {} => x <= y
      k == CHOOSE a \in pending[s] : \A b \in pending[s] : sizes[a] <= sizes[b]
  IN <<s, k>>

NonePending == \A s \in Stores : pending[s] = {}

\* the viewport changes once the previous batch of change events is out:
\* every mql whose match flips and that has a listener gets a change event
Resize(w) ==
  /\ ~dispatching
  /\ hasWindow
  /\ NonePending
  /\ OpsLeft
  /\ w # width
  /\ width' = w
  /\ resizes' = resizes + 1
  /\ pending' = [s \in Stores |->
                   {k \in attached[s] : Matches(k, w) # Matches(k, width)}]
  /\ notify' = NoNotify
  /\ UNCHANGED <<hasWindow, default_obj, header_store, page_subscribers, dispatching, nsubs, nstores, store, value, listeners, attached, on_destroy,
                 teardowns, evaluated, subscribers, handle, subStore, error, header_log,
                 demosVars, pageVars>>

\* the change event of mql (s, key) is dispatched: its listener, if still
\* registered, runs onChange(key) and the writable notifies its subscribers.
\* The facility dispatches a batch of events in one task, so nothing else
\* runs between the first and the last event of a batch.
Deliver(s, key) ==
  /\ ~NonePending
  /\ <<s, key>> = NextEvent
  /\ pending' = [pending EXCEPT ![s] = @ \ {key}]
  /\ dispatching' = ~(\A x \in Stores : pending'[x] = {})
  /\ IF key \in attached[s]
       THEN IF key \in listeners[s]
              THEN /\ value' = [value EXCEPT ![s] = onChange(value[s], key, width)]
                   /\ evaluated' = [evaluated EXCEPT ![s] = TRUE]
                   /\ notify' = [op |-> "change", store |-> s, key |-> key,
                                 subs |-> Notified(s), value |-> value'[s]]
                   /\ UNCHANGED error
              ELSE /\ error' = TRUE     \* listeners[key] is undefined
                   /\ notify' = NoNotify
                   /\ UNCHANGED <<value, evaluated>>
       ELSE /\ notify' = [NoNotify EXCEPT !.op = "dropped", !.store = s, !.key = key]
            /\ UNCHANGED <<value, evaluated, error>>
  /\ default_obj' = SharedDefaultAfter(default_obj, ~evaluated[s] /\ key \in attached[s], key, width)
  /\ UNCHANGED <<hasWindow, width, resizes, nsubs, nstores, store, listeners, attached,
                 on_destroy, teardowns, subscribers, handle, subStore, header_log,
                 header_store, page_subscribers,
                 demosVars, pageVars>>

\* the destroy callback registered by media_query() runs
Teardown(s) ==
  /\ ~dispatching
  /\ on_destroy[s]
  /\ attached' = [attached EXCEPT ![s] = RemoveListeners(attached[s], listeners[s])]
  /\ teardowns' = [teardowns EXCEPT ![s] = IF @ = 0 THEN 1 ELSE 2]
  /\ notify' = NoNotify
  /\ UNCHANGED <<hasWindow, default_obj, header_store, page_subscribers, dispatching, width, resizes, nsubs, nstores, store, value, listeners, pending,
                 on_destroy, evaluated, subscribers, handle, subStore, error, header_log,
                 demosVars, pageVars>>

StoreInit ==
  /\ hasWindow \in BOOLEAN
  /\ default_obj = _default
  /\ width \in Widths
  /\ resizes = 0
  /\ nsubs = 0
  /\ nstores = 0
  /\ store = 0
  /\ value = [s \in Stores |-> _default]
  /\ listeners = [s \in Stores |-> {}]
  /\ attached = [s \in Stores |-> {}]
  /\ pending = [s \in Stores |-> {}]
  /\ dispatching = FALSE
  /\ on_destroy = [s \in Stores |-> FALSE]
  /\ teardowns = [s \in Stores |-> 0]
  /\ evaluated = [s \in Stores |-> FALSE]
  /\ subscribers = [s \in Stores |-> {}]
  /\ handle = [c \in SubIds |-> "none"]
  /\ subStore = [c \in SubIds |-> 0]
  /\ notify = NoNotify
  /\ error = FALSE
  /\ header_log = "none"
  /\ header_store = 0
  /\ page_subscribers = 0

Init == StoreInit /\ DemosInit /\ PageInitial

Next ==
  \/ Layout
  \/ \E c \in SubIds : Subscribe(c)
  \/ \E c \in SubIds : Unsubscribe(c)
  \/ \E w \in Widths : Resize(w)
  \/ \E s \in Stores, key \in Keys : Deliver(s, key)
  \/ \E s \in Stores : Teardown(s)

\* the breakpoint store and its environment
Spec == Init /\ [][Next]_vars

\* the Demos tab selection
SpecDemos == Init /\ [][DemosNext]_vars

\* the Page renders and their star-count fetches
SpecPage == Init /\ [][PageNext]_vars

\* ------------------------------------------------------------------ claims
AllFalse == [k \in Keys |-> FALSE]

\* the subscriptions of store s whose unsubscribe handle has not been invoked
Held(s) == {c \in SubIds : handle[c] = "held" /\ subStore[c] = s}

\* the number of change listeners registered with the viewport facility
RegisteredListeners == Cardinality({p \in Stores \X Keys : p[2] \in attached[p[1]]})

\* the views (Layout renders) whose destroy callbacks have not run
AliveViews == {s \in Stores : Constructed(s) /\ teardowns[s] = 0}

\* C1: after a selection of a valid index i the active index is i, and the
\* content panel of entry j is visible (not hidden) exactly when j = i.
C1_SelectActivates ==
  (select_outcome # "none" /\ InRange(select_index)) =>
    /\ select_outcome = "ok"
    /\ ActiveIndex = select_index
    /\ \A j \in TabIndices : IsActive(j) <=> (j = select_index)
    /\ TabIndices \ DemosRender(current_selection).hidden = {select_index}

C1_Witness ==
  /\ select_outcome = "ok"
  /\ select_index = 2
  /\ demos_html.hidden = TabIndices \ {2}

\* C2: a selection of an index outside [0, length) ends OutOfRange and leaves
\* the active index as it was.
C2_OutOfRangeRejected ==
  [][\A index \in SelectInputs :
       (Select(index) /\ ~InRange(index)) =>
         (select_outcome' = "OutOfRange" /\ current_selection' = current_selection)]_vars

C2_Witness ==
  /\ select_outcome = "OutOfRange"
  /\ select_index = Len(tabs)
  /\ current_selection = 2

\* C3: the selection index is always a valid index, exactly one content panel
\* is visible, and exactly one entry of the rendered markup is marked active.
C3_ExactlyOneActive ==
  /\ current_selection \in TabIndices
  /\ Cardinality({j \in TabIndices : IsActive(j)}) = 1
  /\ Cardinality(TabIndices \ demos_html.hidden) = 1
  /\ Cardinality(demos_html.active_tabs) = 1

\* C4: a constructed store none of whose change listeners has run yet maps
\* every breakpoint to false, whatever the viewport width is.
C4_ColdStartAllFalse ==
  \A s \in Stores : (Constructed(s) /\ ~evaluated[s]) => value[s] = AllFalse

C4_Witness ==
  /\ hasWindow
  /\ Constructed(1)
  /\ ~evaluated[1]
  /\ attached[1] = Keys
  /\ Matches("lg", width)
  /\ header_log = FALSE

\* C5: without a window, media_query() throws nothing, registers no change
\* listener and no destroy callback, every store stays all false, and a
\* subscriber is called with that all-false value.
C5_NoWindowDegrades ==
  ~hasWindow =>
    /\ ~error
    /\ \A s \in Stores :
         /\ listeners[s] = {}
         /\ attached[s] = {}
         /\ ~on_destroy[s]
         /\ value[s] = AllFalse
    /\ notify.op # "change"
    /\ notify.op = "subscribe" => (notify.subs # {} /\ notify.value = AllFalse)

C5_Witness ==
  /\ ~hasWindow
  /\ nstores = 2
  /\ notify.op = "subscribe"
  /\ notify.subs = {1}

\* C6: when the change event of breakpoint k reaches the listener of store s,
\* exactly the subscriptions held on s at that moment are called, with the
\* store's new value, in which k is the current match of k's query and every
\* other breakpoint is as before.
C6_ChangeNotifies ==
  [][\A s \in Stores, k \in Keys :
       (Deliver(s, k) /\ k \in attached[s]) =>
         /\ notify'.op = "change"
         /\ notify'.subs = Held(s)
         /\ notify'.value = value'[s]
         /\ value'[s][k] = Matches(k, width)
         /\ \A j \in Keys \ {k} : value'[s][j] = value[s][j]]_vars

C6_Witness ==
  /\ notify.op = "change"
  /\ notify.key = "lg"
  /\ notify.subs # {}
  /\ notify.value["lg"]
  /\ notify.value["sm"]
  /\ ~notify.value["xl"]

\* C7: a subscription whose unsubscribe handle has been invoked is not called
\* by any later step, while the subscriptions still held on a store are called
\* by every change of that store.
C7_NoCallAfterUnsubscribe ==
  [][\A c \in SubIds :
       /\ handle[c] = "released" => c \notin notify'.subs
       /\ (handle[c] = "held" /\ notify'.op = "change" /\ notify'.store = subStore[c])
            => c \in notify'.subs]_vars

C7_Witness ==
  /\ notify.op = "change"
  /\ notify.subs # {}
  /\ \E c \in SubIds : handle[c] = "released" /\ subStore[c] = notify.store

\* C8: once the destroy callback of a store has run, running it again throws
\* nothing and changes nothing, no change listener of that store runs and the
\* store's value never changes again.
C8_TeardownIdempotent ==
  [][\A s \in Stores :
       teardowns[s] >= 1 =>
         /\ attached[s] = {}
         /\ attached'[s] = {}
         /\ value'[s] = value[s]
         /\ ~error'
         /\ ~(notify'.op = "change" /\ notify'.store = s)
         /\ teardowns'[s] # teardowns[s] =>
              <<value, listeners, attached, pending, subscribers, error>>' =
              <<value, listeners, attached, pending, subscribers, error>>]_vars

C8_Witness ==
  /\ nstores = 1
  /\ teardowns[1] = 2
  /\ dispatching
  /\ value[1] = AllFalse
  /\ Matches("sm", width)

\* C9: the destroy callback removes every listener its store registered, so a
\* destroyed view holds none, and the number of registered change listeners
\* never exceeds (number of breakpoints) x (number of views alive).
C9_NoListenerLeak ==
  /\ \A s \in Stores : attached[s] \subseteq listeners[s]
  /\ \A s \in Stores : teardowns[s] >= 1 => attached[s] = {}
  /\ RegisteredListeners <= Cardinality(Keys) * Cardinality(AliveViews)

C9_Witness ==
  /\ nstores = 2
  /\ teardowns[1] >= 1
  /\ attached[1] = {}
  /\ teardowns[2] = 0
  /\ attached[2] = Keys

\* C10: with a window, for a store that is not torn down, whenever no change
\* event is pending the value of every breakpoint is whether the viewport
\* matches its query.
C10_StateTracksViewport ==
  \A s \in Stores :
    (hasWindow /\ Constructed(s) /\ teardowns[s] = 0 /\ NonePending) =>
      \A k \in Keys : value[s][k] = Matches(k, width)


\* C11: in every reachable state the value of every store maps exactly the
\* keys sm, md, lg, xl, 2xl, each to a boolean.
C11_KeySetFixed ==
  \A s \in Stores :
    /\ DOMAIN value[s] = {"sm", "md", "lg", "xl", "2xl"}
    /\ \A k \in DOMAIN value[s] : value[s][k] \in BOOLEAN
    /\ notify.op # "none" => DOMAIN notify.value = {"sm", "md", "lg", "xl", "2xl"}

C11_Witness ==
  /\ evaluated[1]
  /\ teardowns[1] >= 1
  /\ nsubs >= 1
  /\ handle[1] = "released"
  /\ \E k \in Keys : value[1][k]


\* C12: with a window, constructing a store registers exactly one change
\* listener per breakpoint, five in all, each on the mql of its own key, and
\* the listener of key k changes no other key (and no other store).
C12_OneListenerPerBreakpoint ==
  [][/\ (hasWindow /\ nstores' # nstores) =>
          /\ attached'[nstores'] = Keys
          /\ listeners'[nstores'] = Keys
          /\ Cardinality(attached'[nstores']) = 5
          /\ \A s \in Stores \ {nstores'} : attached'[s] = attached[s]
     /\ \A s \in Stores, k \in Keys :
          Deliver(s, k) =>
            /\ \A j \in Keys \ {k} : value'[s][j] = value[s][j]
            /\ \A x \in Stores \ {s} : value'[x] = value[x]]_vars

C12_Witness ==
  /\ hasWindow
  /\ nstores = 2
  /\ attached[1] = Keys
  /\ attached[2] = Keys
  /\ notify.op = "change"
  /\ notify.key = "xl"
  /\ notify.value["xl"]
  /\ ~notify.value["sm"]


\* C13: however a change event interleaves with unsubscribe calls and
\* teardowns, nothing throws: the event either finds its listener removed and
\* is dropped, changing nothing, or its listener runs and the held
\* subscriptions are called.
C13_NoCrashOnCancel ==
  [][/\ ~error'
     /\ \A s \in Stores, k \in Keys :
          Deliver(s, k) =>
            \/ /\ notify'.op = "dropped"
               /\ k \notin attached[s]
               /\ value' = value
            \/ /\ notify'.op = "change"
               /\ k \in attached[s]
               /\ notify'.subs = Held(s)]_vars

C13_Witness ==
  /\ notify.op = "dropped"
  /\ teardowns[notify.store] >= 1
  /\ \E c \in SubIds : handle[c] = "released" /\ subStore[c] = notify.store
  /\ ~error


\* C14: a change event that reaches a listener of one store changes only that
\* store's value and calls only subscriptions taken on that store; the shared
\* `_default` object is never written, so every newly constructed store starts
\* all false whatever happened to earlier stores.
C14_StoresIndependent ==
  [][/\ default_obj' = AllFalse
     /\ nstores' # nstores => value'[nstores'] = AllFalse
     /\ \A s \in Stores, k \in Keys :
          Deliver(s, k) =>
            /\ \A x \in Stores \ {s} : value'[x] = value[x]
            /\ \A c \in notify'.subs : subStore[c] = s /\ handle[c] = "held"]_vars

C14_Witness ==
  /\ nstores = 2
  /\ notify.op = "change"
  /\ notify.store = 1
  /\ notify.value["lg"]
  /\ value[2] = AllFalse
  /\ attached[2] = Keys
  /\ \E c \in SubIds : handle[c] = "held" /\ subStore[c] = 2 /\ c \notin notify.subs


\* C15: the Header rendered by a Layout render subscribes to the store that
\* this same render assigned to `store`, never to an earlier render's store
\* and never to an undefined one.
C15_HeaderReadsOwnStore ==
  [][nstores' # nstores =>
       /\ store' = nstores'
       /\ header_store' = store'
       /\ header_store' # 0
       /\ header_store' # store
       /\ header_log' = FALSE]_vars

C15_Witness ==
  /\ nstores = 2
  /\ store = 2
  /\ header_store = 2
  /\ evaluated[1]
  /\ value[1]["lg"]
  /\ header_log = FALSE

\* C16: a Header render leaves no subscription of its own on the breakpoint
\* store and a Layout render none on the page store: after any number of
\* renders no store holds a subscriber that rendering added.
C16_RenderSubscriptionsBalanced ==
  /\ \A s \in Stores : 0 \notin subscribers[s]
  /\ \A s \in Stores : subscribers[s] = Held(s)
  /\ page_subscribers = 0

C16_Witness ==
  /\ nstores = 2
  /\ header_store = 2
  /\ subscribers[1] # {}
  /\ subscribers[2] # {}


====
